---- MODULE Spec2Model ----
(***************************************************************************)
(* Model of toddler_typing.keyboard.locker.KeyboardLocker: the keyboard   *)
(* hook callbacks (_on_press, _on_release), the pressed-key state with    *)
(* its timestamps, the stuck-key sweep, the exit-combination matcher, the *)
(* blocking policy and the exit flag polled by the host.                  *)
(*                                                                         *)
(* Time is counted in ticks of half a second: time.time() returns `now'.  *)
(* The listener delivers events for as long as it is installed; what the  *)
(* hook library does with a callback's return value is outside the        *)
(* repository, so every return value is followed by further events.       *)
(***************************************************************************)
EXTENDS Integers, FiniteSets, Sequences, TLC

\* ------------------------------------------------------------------ bounds

\* At most MaxHeld normalized keys are in the held set at a time (the
\* environment presses a further key only below this bound).
MaxHeld == 4

\* At most MaxLeaked listeners that self.listener no longer names stay
\* installed (start() is called again on a started guard only below this).
MaxLeaked == 1

\* pygame.event.get() returns at most MaxUiEvents events in one frame.
MaxUiEvents == 2

\* The readings of the clock an event can be stamped with, in half seconds.
\* Coarse: 0 s, 3.0 s (outside the exit window of 0 s) and 13.0 s, at which
\* an entry of 3.0 s is exactly max_age old and one of 0 s is older.
ClockReadings == {0, 6, 26}

\* Fine: 0, 0.5, 1.5, 2.0, 2.5, 3.0 s, then 13.0 and 13.5 s.
FineReadings == {0, 1, 3, 4, 5, 6, 26, 27}

\* ------------------------------------------------------- program constants

\* self.exit_combo_timeout = 2.0 seconds, in half-second ticks
exit_combo_timeout == 4

\* max_age = 10.0 seconds, in half-second ticks
max_age == 20

\* --------------------------------------------------------------- raw keys

\* Python values carry their class: cls is the class, val is Key.name for a
\* pynput.keyboard.Key member, KeyCode.char for a KeyCode and the text of a
\* str.  Values of different classes are never equal, as in Python.
PKey(n) == [cls |-> "Key", val |-> n]

Str(s) == [cls |-> "str", val |-> s]

KeyCode(c) == [cls |-> "KeyCode", val |-> c]

KeyMembers ==
    {"ctrl_l", "ctrl_r", "shift_l", "shift_r", "alt_l", "alt_r",
     "esc", "cmd_l", "cmd_r", "tab", "f4"}

\* the named keys the listener delivers
RawKeys == {PKey(n) : n \in KeyMembers}

\* the keys of the exit combination, both Ctrl variants, and a letter
TimingKeys ==
    {PKey("ctrl_l"), PKey("ctrl_r"), PKey("shift_l"), PKey("esc"),
     KeyCode("A")}

NoKey == [cls |-> "None", val |-> ""]

\* str.lower() on the characters the model delivers
lower(s) == IF s = "A" THEN "a" ELSE s

\* self.exit_combination, the default of __init__
exit_combination == <<Str("ctrl"), Str("shift"), Str("esc")>>

\* key_map naming only the left variant of each modifier
key_map_left ==
    [name \in {"ctrl", "shift", "alt", "esc", "windows", "tab", "f4"} |->
        CASE name = "ctrl"    -> {PKey("ctrl_l")}
          [] name = "shift"   -> {PKey("shift_l")}
          [] name = "alt"     -> {PKey("alt_l")}
          [] name = "esc"     -> {PKey("esc")}
          [] name = "windows" -> {PKey("cmd_l")}
          [] name = "tab"     -> {PKey("tab")}
          [] name = "f4"      -> {PKey("f4")}]

\* self.key_map of __init__
key_map ==
    [name \in {"ctrl", "shift", "alt", "esc", "windows", "tab", "f4"} |->
        CASE name = "ctrl"    -> {PKey("ctrl_l"), PKey("ctrl_r")}
          [] name = "shift"   -> {PKey("shift_l"), PKey("shift_r")}
          [] name = "alt"     -> {PKey("alt_l"), PKey("alt_r")}
          [] name = "esc"     -> {PKey("esc")}
          [] name = "windows" -> {PKey("cmd_l"), PKey("cmd_r")}
          [] name = "tab"     -> {PKey("tab")}
          [] name = "f4"      -> {PKey("f4")}]

\* KeyboardLocker._normalize_key
_normalize_key(k) ==
    IF k.cls = "KeyCode"
    THEN Str(lower(k.val))
    ELSE IF \E name \in DOMAIN key_map : k \in key_map[name]
         THEN Str(CHOOSE name \in DOMAIN key_map : k \in key_map[name])
         ELSE Str(lower(k.val))

\* ------------------------------------------------------------------ state

VARIABLES
    now,              \* the reading time.time() returns
    running,          \* self.running
    listener,         \* self.listener: "none", or the Listener it names:
                      \* "started", "stopped", or "unstarted"
    current_keys,     \* self.current_keys: set of normalized names
    key_timestamps,   \* self.key_timestamps: normalized name -> press time
    should_exit_flag, \* self.should_exit_flag (threading.Event)
    pc,               \* position of the hook thread in its callback
    key,              \* the raw key of the callback in progress
    ret,              \* the value the callback returned
    polled,           \* the last value should_exit() gave the host loop
    pressed_at,       \* history: normalized name -> time of its last press,
                      \* for the names whose last event was a press
    leaked,           \* number of installed listeners self.listener no
                      \* longer names
    start_result,     \* what the last start() gave its caller
    down,             \* history: raw key -> time of its last press, for
                      \* the raw keys whose last event was a press
    main_pc,          \* ToddlerTypingApp.run: position of the main thread
    app_running,      \* ToddlerTypingApp.running
    pending,          \* events of pygame.event.get() not yet handled
    init_result,      \* what ToddlerTypingApp.initialize returned
    frame_flag,       \* history: the exit flag when the frame began
    key_lock,         \* self.key_lock: 0 when free, else the thread holding it
    tpc,              \* position of each callback thread in its callback
    tkey,             \* the raw key of each callback thread's callback
    interleaved,      \* history, per thread: another callback changed the
                      \* key state since this thread recorded its press
    current_activity,      \* ToddlerTypingAPI.current_activity
    keyboard_locker,       \* ToddlerTypingAPI.keyboard_locker is not None
    keyboard_lock_enabled, \* ToddlerTypingAPI.settings['keyboard_lock_enabled']
    api_pc                 \* position of the caller inside start_activity

\* the fields of the guard besides the listener bookkeeping
lifevars == <<leaked, start_result>>

\* the state of ToddlerTypingApp
hostvars == <<main_pc, app_running, pending, init_result, frame_flag>>

\* the lock and the callback threads that contend for it
threadvars == <<key_lock, tpc, tkey, interleaved>>

\* the state of ToddlerTypingAPI
apivars == <<current_activity, keyboard_locker, keyboard_lock_enabled,
             api_pc>>

\* the threads on which listener callbacks run
Threads == {1, 2}

vars == <<now, running, listener, current_keys, key_timestamps,
          should_exit_flag, pc, key, ret, polled, pressed_at,
          leaked, start_result, down, main_pc, app_running, pending,
          init_result, frame_flag, key_lock, tpc, tkey, interleaved,
          current_activity, keyboard_locker, keyboard_lock_enabled, api_pc>>

\* a function with one entry set or added
Put(f, k, v) == [x \in DOMAIN f \cup {k} |-> IF x = k THEN v ELSE f[x]]

\* a function with the entries of the keys in ks removed
Drop(f, ks) == [x \in DOMAIN f \ ks |-> f[x]]

EmptyMap == [x \in {} |-> 0]

\* KeyboardLocker.__init__
Init ==
    /\ now \in {0}
    /\ running = FALSE
    /\ listener = "none"
    /\ current_keys = {}
    /\ key_timestamps = EmptyMap
    /\ should_exit_flag = FALSE
    /\ pc = "idle"
    /\ key = NoKey
    /\ ret = TRUE
    /\ polled = FALSE
    /\ pressed_at = EmptyMap
    /\ leaked = 0
    /\ start_result = "none"
    /\ down = EmptyMap
    /\ main_pc = "new"
    /\ app_running = FALSE
    /\ pending = 0
    /\ init_result = "none"
    /\ frame_flag = FALSE
    /\ key_lock = 0
    /\ tpc = [t \in Threads |-> "idle"]
    /\ tkey = [t \in Threads |-> NoKey]
    /\ interleaved = [t \in Threads |-> FALSE]
    /\ current_activity = "None"
    /\ keyboard_locker = FALSE
    /\ keyboard_lock_enabled = TRUE
    /\ api_pc = "ready"

\* ------------------------------------------------------------- operations

\* _clean_old_keys with the subtraction the wrong way round
keys_to_remove_sign(timestamps, current_time) ==
    {k \in DOMAIN timestamps : timestamps[k] - current_time > max_age}

\* _clean_old_keys that removes an entry as soon as its age reaches max_age
keys_to_remove_ge(timestamps, current_time) ==
    {k \in DOMAIN timestamps : current_time - timestamps[k] >= max_age}

\* KeyboardLocker._clean_old_keys: the names to remove
keys_to_remove(timestamps, current_time) ==
    {k \in DOMAIN timestamps : current_time - timestamps[k] > max_age}

\* dict.get(key, 0) of _check_exit_combination
TimestampGet(timestamps, k) ==
    IF k \in DOMAIN timestamps THEN timestamps[k] ELSE 0

Range(s) == {s[i] : i \in DOMAIN s}

Max(S) == CHOOSE x \in S : \A y \in S : y <= x

Min(S) == CHOOSE x \in S : \A y \in S : x <= y

\* _check_exit_combination asking for any key of the combination, not all
_check_exit_combination_any(keys, timestamps) ==
    IF ~(\E k \in Range(exit_combination) : k \in keys)
    THEN FALSE
    ELSE LET combo_timestamps ==
                 {TimestampGet(timestamps, k) : k \in Range(exit_combination)}
         IN IF combo_timestamps = {}
            THEN FALSE
            ELSE Max(combo_timestamps) - Min(combo_timestamps)
                     <= exit_combo_timeout

\* _check_exit_combination with the window bound exclusive
_check_exit_combination_strict(keys, timestamps) ==
    IF ~(\A k \in Range(exit_combination) : k \in keys)
    THEN FALSE
    ELSE LET combo_timestamps ==
                 {TimestampGet(timestamps, k) : k \in Range(exit_combination)}
         IN IF combo_timestamps = {}
            THEN FALSE
            ELSE Max(combo_timestamps) - Min(combo_timestamps)
                     < exit_combo_timeout

\* KeyboardLocker._check_exit_combination
_check_exit_combination(keys, timestamps) ==
    IF ~(\A k \in Range(exit_combination) : k \in keys)
    THEN FALSE
    ELSE LET combo_timestamps ==
                 {TimestampGet(timestamps, k) : k \in Range(exit_combination)}
         IN IF combo_timestamps = {}
            THEN FALSE
            ELSE Max(combo_timestamps) - Min(combo_timestamps)
                     <= exit_combo_timeout

\* _should_block_key that knows the left Windows key only
_should_block_key_left(k, keys) ==
    IF k \in {PKey("cmd_l")}
    THEN TRUE
    ELSE IF PKey("tab") = k /\ (PKey("alt_l") \in keys \/ PKey("alt_r") \in keys)
    THEN TRUE
    ELSE IF PKey("f4") = k /\ (PKey("alt_l") \in keys \/ PKey("alt_r") \in keys)
    THEN TRUE
    ELSE FALSE

\* _should_block_key that blocks Tab whether or not Alt is held
_should_block_key_tab(k, keys) ==
    IF k \in {PKey("cmd_l"), PKey("cmd_r")}
    THEN TRUE
    ELSE IF PKey("tab") = k
    THEN TRUE
    ELSE IF PKey("f4") = k /\ (PKey("alt_l") \in keys \/ PKey("alt_r") \in keys)
    THEN TRUE
    ELSE FALSE

\* KeyboardLocker._should_block_key.  current_keys holds normalized names
\* (strings); Key.alt_l and Key.alt_r are Key members, and a Key member is
\* equal to no string, so membership is decided on the raw member.
_should_block_key(k, keys) ==
    IF k \in {PKey("cmd_l"), PKey("cmd_r")}
    THEN TRUE
    ELSE IF PKey("tab") = k /\ (PKey("alt_l") \in keys \/ PKey("alt_r") \in keys)
    THEN TRUE
    ELSE IF PKey("f4") = k /\ (PKey("alt_l") \in keys \/ PKey("alt_r") \in keys)
    THEN TRUE
    ELSE FALSE

\* the number of listeners (OS hooks) installed
Hooks == leaked + (IF listener = "started" THEN 1 ELSE 0)

\* the ways the two calls of start() can end: both return, keyboard.Listener()
\* raises, or listener.start() raises
StartOutcomes == {"ok", "listener_raises", "start_raises"}

\* KeyboardLocker.start.  self.running is set first; a new Listener replaces
\* the one self.listener named, which stays installed if it was started; an
\* exception of either call leaves start() as it is raised.
start(outcome) ==
    /\ running' = TRUE
    /\ IF outcome = "listener_raises"
       THEN UNCHANGED <<listener, leaked>>
       ELSE /\ Hooks <= MaxLeaked
            /\ leaked' = Hooks
            /\ listener' = IF outcome = "ok" THEN "started" ELSE "unstarted"
    /\ start_result' = IF outcome = "ok" THEN "returned" ELSE "raised"
    /\ UNCHANGED <<now, current_keys, key_timestamps, should_exit_flag,
                   pc, key, ret, polled, pressed_at, down>>
    /\ UNCHANGED threadvars

\* KeyboardLocker.stop
stop ==
    /\ running' = FALSE
    /\ listener' = IF listener = "started" THEN "stopped" ELSE listener
    /\ UNCHANGED <<now, current_keys, key_timestamps, should_exit_flag,
                   pc, key, ret, polled, pressed_at, lifevars, down>>
    /\ UNCHANGED threadvars

\* ToddlerTypingAPI.get_system_info: 'keyboard_lock_active', for an API
\* whose keyboard_locker is this guard
keyboard_lock_active == running

\* start() called by a host that is not ToddlerTypingApp
call_start(outcome) == start(outcome) /\ UNCHANGED <<hostvars, apivars>>

\* stop() called by a host that is not ToddlerTypingApp
call_stop == stop /\ UNCHANGED <<hostvars, apivars>>

\* The clock advances between two callbacks, to a later reading.
Tick(readings) ==
    /\ pc = "idle"
    /\ \E t \in readings : t > now /\ now' = t
    /\ UNCHANGED <<running, listener, current_keys, key_timestamps,
                   should_exit_flag, pc, key, ret, polled, pressed_at>>
    /\ UNCHANGED <<lifevars, down, hostvars>>
    /\ UNCHANGED <<threadvars, apivars>>

\* _on_press that keeps the timestamp of a key that is already held
on_press_record_keep(k) ==
    /\ Hooks > 0
    /\ pc = "idle"
    /\ LET normalized == _normalize_key(k)
           current_time == now
           stamped == IF normalized \in DOMAIN key_timestamps
                      THEN key_timestamps
                      ELSE Put(key_timestamps, normalized, current_time)
           old == keys_to_remove(stamped, current_time)
       IN /\ Cardinality(current_keys \cup {normalized}) <= MaxHeld
          /\ current_keys' = (current_keys \cup {normalized}) \ old
          /\ key_timestamps' = Drop(stamped, old)
          /\ pressed_at' = Put(pressed_at, normalized, current_time)
    /\ pc' = "check"
    /\ key' = k
    /\ UNCHANGED <<now, running, listener, should_exit_flag, ret, polled>>
    /\ UNCHANGED <<lifevars, hostvars>>
    /\ UNCHANGED <<threadvars, apivars>>

\* _on_press, lines 99-107: normalize, then under key_lock record the press
\* and sweep the stuck keys.
on_press_record(k) ==
    /\ Hooks > 0
    /\ pc = "idle"
    /\ LET normalized == _normalize_key(k)
           current_time == now
           stamped == Put(key_timestamps, normalized, current_time)
           old == keys_to_remove(stamped, current_time)
       IN /\ Cardinality(current_keys \cup {normalized}) <= MaxHeld
          /\ current_keys' = (current_keys \cup {normalized}) \ old
          /\ key_timestamps' = Drop(stamped, old)
          /\ pressed_at' = Put(pressed_at, normalized, current_time)
    /\ pc' = "check"
    /\ key' = k
    /\ UNCHANGED <<now, running, listener, should_exit_flag, ret, polled>>
    /\ UNCHANGED <<lifevars, hostvars>>
    /\ UNCHANGED <<threadvars, apivars>>

\* _on_press, line 110: the match check, under key_lock
on_press_check ==
    /\ pc = "check"
    /\ pc' = IF _check_exit_combination(current_keys, key_timestamps)
             THEN "set" ELSE "block"
    /\ UNCHANGED <<now, running, listener, current_keys, key_timestamps,
                   should_exit_flag, key, ret, polled, pressed_at>>
    /\ UNCHANGED <<lifevars, down, hostvars>>
    /\ UNCHANGED <<threadvars, apivars>>

\* _on_press that sets the flag and lets the triggering key through
on_press_set_allow ==
    /\ pc = "set"
    /\ should_exit_flag' = TRUE
    /\ ret' = TRUE
    /\ pc' = "pressed"
    /\ UNCHANGED <<now, running, listener, current_keys, key_timestamps,
                   key, polled, pressed_at>>
    /\ UNCHANGED <<lifevars, down, hostvars>>
    /\ UNCHANGED <<threadvars, apivars>>

\* _on_press, lines 111-112: set the flag and return False
on_press_set ==
    /\ pc = "set"
    /\ should_exit_flag' = TRUE
    /\ ret' = FALSE
    /\ pc' = "pressed"
    /\ UNCHANGED <<now, running, listener, current_keys, key_timestamps,
                   key, polled, pressed_at>>
    /\ UNCHANGED <<lifevars, down, hostvars>>
    /\ UNCHANGED <<threadvars, apivars>>

\* _on_press, lines 115-118: the blocking policy decides the return value
on_press_block ==
    /\ pc = "block"
    /\ ret' = ~_should_block_key(key, current_keys)
    /\ pc' = "pressed"
    /\ UNCHANGED <<now, running, listener, current_keys, key_timestamps,
                   should_exit_flag, key, polled, pressed_at>>
    /\ UNCHANGED <<lifevars, down, hostvars>>
    /\ UNCHANGED <<threadvars, apivars>>

\* _on_press returns its value and the hook thread is ready for the next
\* event: the guard alone, with events delivered whatever was returned (what
\* the listener does with the value is listener_take_return)
on_press_return ==
    /\ pc = "pressed"
    /\ pc' = "idle"
    /\ key' = NoKey
    /\ ret' = TRUE
    /\ UNCHANGED <<now, running, listener, current_keys, key_timestamps,
                   should_exit_flag, polled, pressed_at>>
    /\ UNCHANGED <<lifevars, down, hostvars>>
    /\ UNCHANGED <<threadvars, apivars>>

\* _on_release that also clears the exit flag
on_release_clears(k) ==
    /\ Hooks > 0
    /\ pc = "idle"
    /\ LET normalized == _normalize_key(k)
       IN /\ current_keys' = current_keys \ {normalized}
          /\ key_timestamps' = Drop(key_timestamps, {normalized})
          /\ pressed_at' = Drop(pressed_at, {normalized})
    /\ should_exit_flag' = FALSE
    /\ UNCHANGED <<now, running, listener, pc, key, ret, polled>>
    /\ UNCHANGED <<lifevars, hostvars>>
    /\ UNCHANGED <<threadvars, apivars>>

\* _on_release that leaves the timestamp of the released key in place
on_release_keep_ts(k) ==
    /\ Hooks > 0
    /\ pc = "idle"
    /\ LET normalized == _normalize_key(k)
       IN /\ current_keys' = current_keys \ {normalized}
          /\ key_timestamps' = key_timestamps
          /\ pressed_at' = Drop(pressed_at, {normalized})
    /\ UNCHANGED <<now, running, listener, should_exit_flag, pc, key, ret,
                   polled>>
    /\ UNCHANGED <<lifevars, hostvars>>
    /\ UNCHANGED <<threadvars, apivars>>

\* KeyboardLocker._on_release
_on_release(k) ==
    /\ Hooks > 0
    /\ pc = "idle"
    /\ LET normalized == _normalize_key(k)
       IN /\ current_keys' = current_keys \ {normalized}
          /\ key_timestamps' = Drop(key_timestamps, {normalized})
          /\ pressed_at' = Drop(pressed_at, {normalized})
    /\ UNCHANGED <<now, running, listener, should_exit_flag, pc, key, ret,
                   polled>>
    /\ UNCHANGED <<lifevars, hostvars>>
    /\ UNCHANGED <<threadvars, apivars>>

\* should_exit that consumes the flag it reads
should_exit_consume ==
    /\ polled' = should_exit_flag
    /\ should_exit_flag' = FALSE
    /\ UNCHANGED <<now, running, listener, current_keys, key_timestamps,
                   pc, key, ret, pressed_at>>
    /\ UNCHANGED <<lifevars, down, hostvars>>
    /\ UNCHANGED <<threadvars, apivars>>

\* KeyboardLocker.should_exit, called by the host loop on its own thread
should_exit ==
    /\ polled' = should_exit_flag
    /\ UNCHANGED <<now, running, listener, current_keys, key_timestamps,
                   should_exit_flag, pc, key, ret, pressed_at>>
    /\ UNCHANGED <<lifevars, down, hostvars>>
    /\ UNCHANGED <<threadvars, apivars>>

\* every key of the listener, coarse clock
Next ==
    \/ listener = "none" /\ call_start("ok")
    \/ Tick(ClockReadings)
    \/ \E k \in RawKeys : on_press_record(k) /\ UNCHANGED down
    \/ on_press_check
    \/ on_press_set
    \/ on_press_block
    \/ on_press_return
    \/ \E k \in RawKeys : _on_release(k) /\ UNCHANGED down
    \/ should_exit

Spec == Init /\ [][Next]_vars

\* the keys of the exit combination, fine clock
NextTiming ==
    \/ listener = "none" /\ call_start("ok")
    \/ Tick(FineReadings)
    \/ \E k \in TimingKeys : on_press_record(k) /\ UNCHANGED down
    \/ on_press_check
    \/ on_press_set
    \/ on_press_block
    \/ on_press_return
    \/ \E k \in TimingKeys : _on_release(k) /\ UNCHANGED down
    \/ should_exit

SpecTiming == Init /\ [][NextTiming]_vars

\* The keys of the exit combination, one raw variant each
LifeKeys == {PKey("ctrl_l"), PKey("shift_l"), PKey("esc")}

\* The guard under a host that calls start(), stop() and should_exit() in
\* any order, while the hook thread delivers events
NextLifecycle ==
    \/ \E outcome \in StartOutcomes : call_start(outcome)
    \/ call_stop
    \/ Tick(ClockReadings)
    \/ \E k \in LifeKeys : on_press_record(k) /\ UNCHANGED down
    \/ on_press_check
    \/ on_press_set
    \/ on_press_block
    \/ on_press_return
    \/ \E k \in LifeKeys : _on_release(k) /\ UNCHANGED down
    \/ should_exit

SpecLifecycle == Init /\ [][NextLifecycle]_vars

\* ToddlerTypingApp.initialize that gives up when the guard does not start
main_initialize_abort(outcome) ==
    /\ main_pc = "new"
    /\ start(outcome)
    /\ init_result' = IF outcome = "ok" THEN "true" ELSE "false"
    /\ app_running' = (outcome = "ok")
    /\ main_pc' = IF outcome = "ok" THEN "top" ELSE "closed"
    /\ UNCHANGED <<pending, frame_flag, apivars>>

\* ToddlerTypingApp.run up to the loop: initialize() creates the guard and
\* calls start() inside try/except Exception, prints, and returns True; run()
\* then sets self.running.
main_initialize(outcome) ==
    /\ main_pc = "new"
    /\ start(outcome)
    /\ init_result' = "true"
    /\ app_running' = TRUE
    /\ main_pc' = "top"
    /\ UNCHANGED <<pending, frame_flag, apivars>>

\* run: `while self.running:` is entered and pygame.event.get() returns the
\* events of this frame
main_frame_begin ==
    /\ main_pc = "top"
    /\ app_running
    /\ \E n \in 0..MaxUiEvents : pending' = n
    /\ frame_flag' = should_exit_flag
    /\ main_pc' = "events"
    /\ UNCHANGED <<now, running, listener, current_keys, key_timestamps,
                   should_exit_flag, pc, key, ret, polled, pressed_at>>
    /\ UNCHANGED <<lifevars, down, app_running, init_result>>
    /\ UNCHANGED <<threadvars, apivars>>

\* run: the body of `for event in pygame.event.get():` for one event, which
\* is pygame.QUIT or not; should_exit() is called here
main_handle_event(quit) ==
    /\ main_pc = "events"
    /\ pending > 0
    /\ pending' = pending - 1
    /\ polled' = should_exit_flag
    /\ app_running' = IF quit \/ should_exit_flag THEN FALSE ELSE app_running
    /\ UNCHANGED <<now, running, listener, current_keys, key_timestamps,
                   should_exit_flag, pc, key, ret, pressed_at>>
    /\ UNCHANGED <<lifevars, down, main_pc, init_result, frame_flag>>
    /\ UNCHANGED <<threadvars, apivars>>

\* run: the for loop is exhausted; update, draw, clock.tick
main_frame_end ==
    /\ main_pc = "events"
    /\ pending = 0
    /\ main_pc' = "top"
    /\ UNCHANGED <<now, running, listener, current_keys, key_timestamps,
                   should_exit_flag, pc, key, ret, polled, pressed_at>>
    /\ UNCHANGED <<lifevars, down, app_running, pending, init_result,
                   frame_flag>>
    /\ UNCHANGED <<threadvars, apivars>>

\* run: the loop condition is false; finally: ToddlerTypingApp.cleanup
main_cleanup ==
    /\ main_pc = "top"
    /\ ~app_running
    /\ stop
    /\ main_pc' = "closed"
    /\ UNCHANGED <<app_running, pending, init_result, frame_flag, apivars>>

\* ToddlerTypingApp with its guard and the hook thread
NextHost ==
    \/ \E outcome \in StartOutcomes : main_initialize(outcome)
    \/ main_frame_begin
    \/ \E quit \in BOOLEAN : main_handle_event(quit)
    \/ main_frame_end
    \/ main_cleanup
    \/ Tick(ClockReadings)
    \/ \E k \in LifeKeys : on_press_record(k) /\ UNCHANGED down
    \/ on_press_check
    \/ on_press_set
    \/ on_press_block
    \/ on_press_return
    \/ \E k \in LifeKeys : _on_release(k) /\ UNCHANGED down

SpecHost == Init /\ [][NextHost]_vars

\* Both variants of Ctrl, and one raw key for Shift and Esc
SideKeys == {PKey("ctrl_l"), PKey("ctrl_r"), PKey("shift_l"), PKey("esc")}

\* The started guard, with the raw keys that are physically down recorded
\* beside it
NextSides ==
    \/ listener = "none" /\ call_start("ok")
    \/ Tick(ClockReadings)
    \/ \E k \in SideKeys : on_press_record(k) /\ down' = Put(down, k, now)
    \/ on_press_check
    \/ on_press_set
    \/ on_press_block
    \/ on_press_return
    \/ \E k \in DOMAIN down : _on_release(k) /\ down' = Drop(down, {k})
    \/ should_exit

SpecSides == Init /\ [][NextSides]_vars

\* The listener takes the value _on_press returned.  The callbacks are
\* handed to keyboard.Listener (lines 215-217), whose callback contract is
\* the one the docstring of _on_release names ("True to continue
\* listening"): a callback that returns False stops the listener that
\* called it.  self.running is not touched.
listener_take_return ==
    /\ pc = "pressed"
    /\ pc' = "idle"
    /\ key' = NoKey
    /\ ret' = TRUE
    /\ listener' = IF ret = FALSE /\ listener = "started"
                   THEN "stopped" ELSE listener
    /\ UNCHANGED <<now, running, current_keys, key_timestamps,
                   should_exit_flag, polled, pressed_at>>
    /\ UNCHANGED <<lifevars, down, hostvars>>
    /\ UNCHANGED <<threadvars, apivars>>

\* The keys of the exit combination and a Windows key
SuppressKeys ==
    {PKey("ctrl_l"), PKey("shift_l"), PKey("esc"), PKey("cmd_l")}

\* The guard started once, with the listener acting on the values its
\* callbacks return
NextSuppress ==
    \/ listener = "none" /\ call_start("ok")
    \/ call_stop
    \/ Tick(ClockReadings)
    \/ \E k \in SuppressKeys : on_press_record(k) /\ UNCHANGED down
    \/ on_press_check
    \/ on_press_set
    \/ on_press_block
    \/ listener_take_return
    \/ \E k \in SuppressKeys : _on_release(k) /\ UNCHANGED down
    \/ should_exit

SpecSuppress == Init /\ [][NextSuppress]_vars

\* VALID_ACTIVITIES of api.py
VALID_ACTIVITIES ==
    {"letters_numbers", "drawing", "colors_shapes", "coloring", "dot2dot",
     "sounds"}

\* The names start_activity is called with: two valid ones and one unknown
ActivityNames == {"letters_numbers", "drawing", "unknown"}

\* everything stop() constrains, for a call that is skipped
lockervars ==
    <<now, running, listener, current_keys, key_timestamps, should_exit_flag,
      pc, key, ret, polled, pressed_at, lifevars, down, threadvars>>

\* stop_activity that forgets the keyboard lock
api_stop_activity_keep ==
    /\ api_pc = "ready"
    /\ current_activity' = "None"
    /\ UNCHANGED lockervars
    /\ UNCHANGED <<keyboard_locker, keyboard_lock_enabled, api_pc, hostvars>>

\* ToddlerTypingAPI.stop_activity: _disable_keyboard_lock if there is a
\* locker, then current_activity = None
api_stop_activity ==
    /\ api_pc = "ready"
    /\ IF keyboard_locker THEN stop ELSE UNCHANGED lockervars
    /\ current_activity' = "None"
    /\ UNCHANGED <<keyboard_locker, keyboard_lock_enabled, api_pc, hostvars>>

\* ToddlerTypingAPI.start_activity, lines 102-121: an unknown name is
\* refused; else the current activity, if any, is stopped and the new one
\* is set
api_start_activity(name) ==
    /\ api_pc = "ready"
    /\ IF name \notin VALID_ACTIVITIES
       THEN UNCHANGED <<lockervars, current_activity, api_pc>>
       ELSE /\ IF current_activity # "None" /\ keyboard_locker
               THEN stop ELSE UNCHANGED lockervars
            /\ current_activity' = name
            /\ api_pc' = "enable"
    /\ UNCHANGED <<keyboard_locker, keyboard_lock_enabled, hostvars>>

\* ToddlerTypingAPI.start_activity, lines 123-131: with the setting on,
\* _enable_keyboard_lock creates the locker if there is none and calls
\* start(), whose exception it logs
api_enable_keyboard_lock(outcome) ==
    /\ api_pc = "enable"
    /\ IF keyboard_lock_enabled
       THEN start(outcome) /\ keyboard_locker' = TRUE
       ELSE UNCHANGED <<lockervars, keyboard_locker>>
    /\ api_pc' = "ready"
    /\ UNCHANGED <<current_activity, keyboard_lock_enabled, hostvars>>

\* ToddlerTypingAPI.save_settings with a 'keyboard_lock_enabled' value
api_save_settings(enabled) ==
    /\ api_pc = "ready"
    /\ keyboard_lock_enabled' = enabled
    /\ UNCHANGED lockervars
    /\ UNCHANGED <<current_activity, keyboard_locker, api_pc, hostvars>>

\* ToddlerTypingAPI.cleanup: stop_activity if an activity is current, then
\* _disable_keyboard_lock if there is a locker
api_cleanup ==
    /\ api_pc = "ready"
    /\ IF keyboard_locker THEN stop ELSE UNCHANGED lockervars
    /\ current_activity' = "None"
    /\ UNCHANGED <<keyboard_locker, keyboard_lock_enabled, api_pc, hostvars>>

\* ToddlerTypingAPI.get_system_info: 'keyboard_lock_active'
api_keyboard_lock_active == keyboard_locker /\ keyboard_lock_active

\* ToddlerTypingAPI called by the frontend, with the hook thread of its
\* locker
NextApi ==
    \/ \E name \in ActivityNames : api_start_activity(name)
    \/ \E outcome \in StartOutcomes : api_enable_keyboard_lock(outcome)
    \/ api_stop_activity
    \/ \E enabled \in BOOLEAN : api_save_settings(enabled)
    \/ api_cleanup
    \/ \E k \in LifeKeys : on_press_record(k) /\ UNCHANGED down
    \/ on_press_check
    \/ on_press_set
    \/ on_press_block
    \/ on_press_return
    \/ \E k \in LifeKeys : _on_release(k) /\ UNCHANGED down

SpecApi == Init /\ [][NextApi]_vars

\* The keys of the exit combination and Tab, whose blocking check reads the
\* held set
ThreadKeys == {PKey("ctrl_l"), PKey("shift_l"), PKey("esc"), PKey("tab")}

\* The clock of the overlapping callbacks: 0 s and 13 s
ThreadReadings == {0, 26}

\* the normalized name of the key thread t is handling (line 99 / 130)
normalized_of(t) == _normalize_key(tkey[t])

\* interleaved after a step of thread t that changed the key state or not:
\* the other threads that have recorded a press and not yet run its match
\* check have been overtaken
Overtaken(t, changed) ==
    [u \in Threads |->
        IF u # t /\ changed /\ tpc[u] = "c_wait" THEN TRUE
        ELSE interleaved[u]]

\* what a step of a callback thread leaves alone besides the key state
thread_frame ==
    UNCHANGED <<now, running, listener, pc, key, polled, pressed_at,
                lifevars, down, hostvars, apivars>>

\* the listener calls on_press(k) on thread t
t_deliver_press(t, k) ==
    /\ Hooks > 0
    /\ tpc[t] = "idle"
    /\ tpc' = [tpc EXCEPT ![t] = "p_wait"]
    /\ tkey' = [tkey EXCEPT ![t] = k]
    /\ UNCHANGED <<current_keys, key_timestamps, should_exit_flag, ret,
                   key_lock, interleaved>>
    /\ thread_frame

\* the listener calls on_release(k) on thread t
t_deliver_release(t, k) ==
    /\ Hooks > 0
    /\ tpc[t] = "idle"
    /\ tpc' = [tpc EXCEPT ![t] = "r_wait"]
    /\ tkey' = [tkey EXCEPT ![t] = k]
    /\ UNCHANGED <<current_keys, key_timestamps, should_exit_flag, ret,
                   key_lock, interleaved>>
    /\ thread_frame

\* _on_press, lines 101-103: `with self.key_lock:` is entered and the name
\* is added to current_keys
t_press_add(t) ==
    /\ tpc[t] = "p_wait"
    /\ key_lock = 0
    /\ key_lock' = t
    /\ current_keys' = current_keys \cup {normalized_of(t)}
    /\ interleaved' = Overtaken(t, normalized_of(t) \notin current_keys)
    /\ tpc' = [tpc EXCEPT ![t] = "p_stamp"]
    /\ UNCHANGED <<key_timestamps, should_exit_flag, ret, tkey>>
    /\ thread_frame

\* _on_press whose _clean_old_keys takes key_lock itself: the thread waits
\* for the lock it holds
t_press_stamp_relock(t) ==
    /\ tpc[t] = "p_stamp"
    /\ key_timestamps' = Put(key_timestamps, normalized_of(t), now)
    /\ interleaved' =
           Overtaken(t, Put(key_timestamps, normalized_of(t), now)
                           # key_timestamps)
    /\ tpc' = [tpc EXCEPT ![t] = "s_wait"]
    /\ UNCHANGED <<current_keys, should_exit_flag, ret, tkey, key_lock>>
    /\ thread_frame

\* _on_press, lines 104-107: the timestamp is stored, _clean_old_keys sweeps,
\* and the with block is left
t_press_stamp(t) ==
    /\ tpc[t] = "p_stamp"
    /\ LET current_time == now
           stamped == Put(key_timestamps, normalized_of(t), current_time)
           old == keys_to_remove(stamped, current_time)
       IN /\ current_keys' = current_keys \ old
          /\ key_timestamps' = Drop(stamped, old)
          /\ interleaved' =
                 [Overtaken(t, Drop(stamped, old) # key_timestamps)
                     EXCEPT ![t] = FALSE]
    /\ key_lock' = 0
    /\ tpc' = [tpc EXCEPT ![t] = "c_wait"]
    /\ UNCHANGED <<should_exit_flag, ret, tkey>>
    /\ thread_frame

\* _check_exit_combination, line 164: `with self.key_lock:` is entered
t_check_acquire(t) ==
    /\ tpc[t] = "c_wait"
    /\ key_lock = 0
    /\ key_lock' = t
    /\ tpc' = [tpc EXCEPT ![t] = "c_locked"]
    /\ UNCHANGED <<current_keys, key_timestamps, should_exit_flag, ret,
                   tkey, interleaved>>
    /\ thread_frame

\* _check_exit_combination, lines 165-182: the match is decided and the
\* with block is left
t_check(t) ==
    /\ tpc[t] = "c_locked"
    /\ tpc' = [tpc EXCEPT ![t] =
                  IF _check_exit_combination(current_keys, key_timestamps)
                  THEN "set" ELSE "block"]
    /\ key_lock' = 0
    /\ UNCHANGED <<current_keys, key_timestamps, should_exit_flag, ret,
                   tkey, interleaved>>
    /\ thread_frame

\* _on_press, lines 111-112
t_set(t) ==
    /\ tpc[t] = "set"
    /\ should_exit_flag' = TRUE
    /\ ret' = FALSE
    /\ tpc' = [tpc EXCEPT ![t] = "idle"]
    /\ tkey' = [tkey EXCEPT ![t] = NoKey]
    /\ UNCHANGED <<current_keys, key_timestamps, key_lock, interleaved>>
    /\ thread_frame

\* _on_press, lines 115-118: _should_block_key, which for Tab and F4 reads
\* current_keys, with no `with self.key_lock`
t_block(t) ==
    /\ tpc[t] = "block"
    /\ ret' = ~_should_block_key(tkey[t], current_keys)
    /\ tpc' = [tpc EXCEPT ![t] = "idle"]
    /\ tkey' = [tkey EXCEPT ![t] = NoKey]
    /\ UNCHANGED <<current_keys, key_timestamps, should_exit_flag,
                   key_lock, interleaved>>
    /\ thread_frame

\* _on_release, lines 132-133: `with self.key_lock:` is entered and the name
\* is discarded from current_keys
t_release_discard(t) ==
    /\ tpc[t] = "r_wait"
    /\ key_lock = 0
    /\ key_lock' = t
    /\ current_keys' = current_keys \ {normalized_of(t)}
    /\ interleaved' = Overtaken(t, normalized_of(t) \in current_keys)
    /\ tpc' = [tpc EXCEPT ![t] = "r_del"]
    /\ UNCHANGED <<key_timestamps, should_exit_flag, ret, tkey>>
    /\ thread_frame

\* _on_release that leaves the timestamp of the released key in place
t_release_del_keep(t) ==
    /\ tpc[t] = "r_del"
    /\ key_lock' = 0
    /\ tpc' = [tpc EXCEPT ![t] = "idle"]
    /\ tkey' = [tkey EXCEPT ![t] = NoKey]
    /\ UNCHANGED <<current_keys, key_timestamps, should_exit_flag, ret,
                   interleaved>>
    /\ thread_frame

\* _on_release that deletes the timestamp without testing for it
t_release_del_unguarded(t) ==
    /\ tpc[t] = "r_del"
    /\ key_timestamps' = Drop(key_timestamps, {normalized_of(t)})
    /\ interleaved' =
           Overtaken(t, normalized_of(t) \in DOMAIN key_timestamps)
    /\ key_lock' = 0
    /\ tpc' = [tpc EXCEPT ![t] =
                  IF normalized_of(t) \in DOMAIN key_timestamps
                  THEN "idle" ELSE "raised"]
    /\ tkey' = [tkey EXCEPT ![t] = NoKey]
    /\ UNCHANGED <<current_keys, should_exit_flag, ret>>
    /\ thread_frame

\* _on_release, lines 134-137: the timestamp is deleted if there is one, the
\* with block is left and True is returned
t_release_del(t) ==
    /\ tpc[t] = "r_del"
    /\ key_timestamps' = Drop(key_timestamps, {normalized_of(t)})
    /\ interleaved' =
           Overtaken(t, normalized_of(t) \in DOMAIN key_timestamps)
    /\ key_lock' = 0
    /\ tpc' = [tpc EXCEPT ![t] = "idle"]
    /\ tkey' = [tkey EXCEPT ![t] = NoKey]
    /\ UNCHANGED <<current_keys, should_exit_flag, ret>>
    /\ thread_frame

\* the steps by which thread t runs the callback it was given
t_advance(t) ==
    \/ t_press_add(t)
    \/ t_press_stamp(t)
    \/ t_check_acquire(t)
    \/ t_check(t)
    \/ t_set(t)
    \/ t_block(t)
    \/ t_release_discard(t)
    \/ t_release_del(t)

\* The guard with callbacks overlapping on two threads, and a host that
\* starts and stops it
NextThreads ==
    \/ listener \in {"none", "stopped"} /\ call_start("ok")
    \/ call_stop
    \/ Tick(ThreadReadings)
    \/ \E t \in Threads, k \in ThreadKeys : t_deliver_press(t, k)
    \/ \E t \in Threads, k \in ThreadKeys : t_deliver_release(t, k)
    \/ \E t \in Threads : t_advance(t)

SpecThreads == Init /\ [][NextThreads]_vars

\* The started guard with callbacks overlapping on two threads and a host
\* that polls it
NextOverlap ==
    \/ listener = "none" /\ call_start("ok")
    \/ \E t \in Threads, k \in LifeKeys : t_deliver_press(t, k)
    \/ \E t \in Threads, k \in LifeKeys : t_deliver_release(t, k)
    \/ \E t \in Threads : t_advance(t)
    \/ should_exit

\* A thread that can take a step of its callback, or can again and again
\* (it waits for key_lock, which the other thread keeps releasing), takes it.
SpecOverlap ==
    Init /\ [][NextOverlap]_vars /\ \A t \in Threads : SF_vars(t_advance(t))

\* ------------------------------------------------------- claim vocabulary

\* the keys of the exit combination
Combo == Range(exit_combination)

\* every key of the exit combination is in the held set
ComboAllHeld ==
    \A a \in Combo : a \in current_keys /\ a \in DOMAIN key_timestamps

\* ... and their press timestamps lie within exit_window of each other
ExitComboHeld ==
    /\ ComboAllHeld
    /\ \A a, b \in Combo :
           key_timestamps[a] - key_timestamps[b] <= exit_combo_timeout

\* the hook thread is inside _on_press, after the press was recorded
InPress == pc \in {"check", "set", "block"}

\* _on_press has computed its return value
Returned == pc = "pressed"

\* the last event of every key of the combination was a press, and these
\* presses lie within exit_window of each other
ComboPressedTogether ==
    /\ \A a \in Combo : a \in DOMAIN pressed_at
    /\ \A a, b \in Combo :
           pressed_at[a] - pressed_at[b] <= exit_combo_timeout

\* the names whose last event was a press but which were swept as stuck
Evicted == DOMAIN pressed_at \ current_keys

\* ----------------------------------------------------------------- claims

\* C1: the exit flag goes from unset to set only in a state in which every
\* key of the exit combination is held and the spread of their timestamps is
\* at most exit_window; should_exit() gives true only once the flag is set.
C1_FlagOnlyOnCombo ==
    [][/\ (~should_exit_flag /\ should_exit_flag') => ExitComboHeld
       /\ polled' => should_exit_flag]_vars

C1_Witness == should_exit_flag /\ polled /\ Returned /\ ret = FALSE

\* C2: when _on_press returns with every combination key held and spread at
\* most exit_window (inclusive), the flag is set; while a press is handled
\* with every combination key held and a greater spread, the flag does not
\* change.
C2_WindowDecides ==
    [][InPress =>
         /\ (ExitComboHeld /\ Returned') => should_exit_flag'
         /\ (ComboAllHeld /\ ~ExitComboHeld) =>
                should_exit_flag' = should_exit_flag]_vars

\* Ctrl at 0 s, Shift at 0.5 s, Esc at 1.5 s: the flag is set
C2_Witness ==
    /\ Returned
    /\ key = PKey("esc")
    /\ key_timestamps =
           (Str("ctrl") :> 0) @@ (Str("shift") :> 1) @@ (Str("esc") :> 3)
    /\ should_exit_flag
    /\ ret = FALSE

\* C3: the flag is a latch.  It never goes back to unset, should_exit() never
\* goes back to false, and a match while the flag is set changes nothing but
\* the callback's own position and return value.
C3_Latch ==
    [][/\ should_exit_flag => should_exit_flag'
       /\ polled => polled'
       /\ (pc = "set" /\ should_exit_flag /\ pc' # pc) =>
              UNCHANGED <<now, running, listener, current_keys,
                          key_timestamps, should_exit_flag, polled>>]_vars

\* a Tab press matched again while the flag had been read as set
C3_Witness ==
    /\ Returned
    /\ key = PKey("tab")
    /\ ExitComboHeld
    /\ polled
    /\ should_exit_flag

\* C4: once the last event of every combination key is a press and these
\* presses lie within exit_window of each other, the flag is set when the
\* last of them has been handled, whatever stuck entries the state held.
C4_StuckKeyCannotBlockExit ==
    (pc \in {"idle", "pressed"} /\ ComboPressedTogether) => should_exit_flag

\* a press is about to set the unset flag at 13.0 s, while an entry of a key
\* pressed at 3.0 s is still in the held set
C4_Witness ==
    /\ pc = "set"
    /\ ~should_exit_flag
    /\ now = 26
    /\ \E j \in current_keys : key_timestamps[j] = 6
    /\ ComboPressedTogether

\* C5: while a press of one key is handled at time now, every other key whose
\* last event was a press at a time t with now > t + max_key_age is absent
\* from the held set and from the timestamps.
C5_StuckKeyEvicted ==
    (InPress \/ Returned) =>
        \A j \in DOMAIN pressed_at :
            (j # _normalize_key(key) /\ now > pressed_at[j] + max_age) =>
                (j \notin current_keys /\ j \notin DOMAIN key_timestamps)

C5_Witness ==
    /\ Returned
    /\ \E j \in Evicted : j # _normalize_key(key) /\ now > pressed_at[j] + max_age

\* C6: a press of the left or of the right variant of Ctrl or Shift, or of
\* Esc, is recorded under the one name ctrl, shift or esc with the time of
\* the press, and the press that completes the combination within the window
\* sets the flag and is suppressed, whichever variants were pressed.
C6_SideAgnostic ==
    /\ (InPress \/ Returned) =>
          /\ key \in {PKey("ctrl_l"), PKey("ctrl_r")} =>
                 (Str("ctrl") \in current_keys
                      /\ key_timestamps[Str("ctrl")] = now)
          /\ key \in {PKey("shift_l"), PKey("shift_r")} =>
                 (Str("shift") \in current_keys
                      /\ key_timestamps[Str("shift")] = now)
          /\ key = PKey("esc") =>
                 (Str("esc") \in current_keys
                      /\ key_timestamps[Str("esc")] = now)
    /\ (Returned /\ ExitComboHeld) => (should_exit_flag /\ ret = FALSE)

\* the right Shift completes the combination
C6_Witness ==
    /\ Returned
    /\ key = PKey("shift_r")
    /\ current_keys = Combo
    /\ should_exit_flag
    /\ ret = FALSE

\* C7: a Tab or F4 press handled while Alt is held returns the suppress
\* decision.
C7_AltTabSuppressed ==
    (Returned /\ key \in {PKey("tab"), PKey("f4")}
        /\ Str("alt") \in current_keys) => ret = FALSE

\* C8: a press of the left or right Windows key returns the suppress
\* decision, whatever is held.
C8_WindowsSuppressed ==
    (Returned /\ key \in {PKey("cmd_l"), PKey("cmd_r")}) => ret = FALSE

\* the right Windows key, pressed while three other keys are held
C8_Witness ==
    /\ Returned
    /\ key = PKey("cmd_r")
    /\ Cardinality(current_keys) = 4
    /\ ret = FALSE

\* C9 (as claimed): a Tab press handled while Alt is not held returns the
\* allow decision, whatever else is held.
C9_TabAlwaysAllowed ==
    (Returned /\ key = PKey("tab") /\ Str("alt") \notin current_keys) =>
        ret = TRUE

\* C9 (amended): a Tab press handled while Alt is not held returns the allow
\* decision unless the match check of that press finds the exit combination
\* held within the window, and then it returns the suppress decision.
C9_TabAllowedUnlessMatch ==
    (Returned /\ key = PKey("tab") /\ Str("alt") \notin current_keys) =>
        (ret = TRUE <=> ~ExitComboHeld)

\* Tab allowed while two other keys, none of them Alt, are held
C9_Witness ==
    /\ Returned
    /\ key = PKey("tab")
    /\ Str("alt") \notin current_keys
    /\ Cardinality(current_keys) = 3
    /\ ret = TRUE

\* C10: as long as no press is older than max_key_age, the held set and the
\* keys of the timestamp map are exactly the names whose last event was a
\* press, each with the time of that press, whenever should_exit() is polled.
C10_NoLostUpdates ==
    (\A j \in DOMAIN pressed_at : now - pressed_at[j] <= max_age) =>
        /\ current_keys = DOMAIN pressed_at
        /\ key_timestamps = pressed_at

\* after presses and a release, polled by the host, at 13.0 s
C10_Witness ==
    /\ pc = "idle"
    /\ polled
    /\ now = 26
    /\ Cardinality(current_keys) = 2
    /\ current_keys = DOMAIN pressed_at
    /\ \E j \in current_keys : key_timestamps[j] = 6

\* ---- C11 ----
\* C11: start() is idempotent on a Running guard: however often start() is
\* called, at most one listener (OS hook) is installed, and once stop() has
\* left the guard not running no hook is installed.
C11_StartIdempotent ==
    /\ Hooks <= 1
    /\ (~running /\ listener # "none") => Hooks = 0

\* ---- C12 ----
\* C12: stop() drops all tracked key state: a stop() of a running guard
\* leaves the held set and the timestamp map empty.
C12_StopDropsKeys ==
    [][(running /\ ~running') =>
         (current_keys' = {} /\ key_timestamps' = EmptyMap)]_vars

\* ---- C13 ----
\* C13: a guard restart clears the exit flag: when start() returns on a guard
\* that was not running, the exit flag is unset.
C13_RestartClearsFlag ==
    [][(~running /\ running' /\ start_result' = "returned") =>
         ~should_exit_flag']_vars

\* ---- C14 ----
\* C14: after stop() has returned and no hook is installed, a callback that
\* still runs changes neither the held set, nor the timestamps, nor the exit
\* flag.
C14_CallbackAfterStopNoOp ==
    [][(~running /\ listener = "stopped" /\ Hooks = 0 /\ ~running') =>
         UNCHANGED <<current_keys, key_timestamps, should_exit_flag>>]_vars

\* ---- C15 ----
\* C15: after a failed start() no state reports an active lock while no hook
\* is installed: the running flag and keyboard_lock_active are false.
C15_NoPartialLock ==
    (start_result = "raised" /\ Hooks = 0) =>
        (~running /\ ~keyboard_lock_active)

\* ---- C18 ----
\* C18: stop() is safe in every state: whenever stop() has left the guard
\* not running, the guard's listener is not started and no hook is
\* installed.
C18_StopSafe ==
    ~running => (listener # "started" /\ Hooks = 0)

\* ---- C19 ----
\* C19: should_exit() is a pure read: a poll that changes its answer changes
\* no guard state and answers the flag; the flag is set only by the match
\* check of a press with the exit combination held, and is never unset, so
\* the answer is false as long as the combination was never detected.
C19_PureRead ==
    [][/\ (polled' # polled) =>
            /\ UNCHANGED <<current_keys, key_timestamps, should_exit_flag,
                           running, listener, leaked>>
            /\ polled' = should_exit_flag
       /\ (~should_exit_flag /\ should_exit_flag') =>
            (pc = "set" /\ ComboAllHeld)
       /\ should_exit_flag => should_exit_flag']_vars

\* should_exit() answered true on a stopped guard
C19_Witness ==
    /\ polled
    /\ should_exit_flag
    /\ ~running
    /\ listener = "stopped"
    /\ pc = "idle"

\* ---- C16 ----
\* C16: when the hook is not installed by initialize(), start() has raised
\* to its caller, initialize() returns True and the main loop is entered with
\* the application running; after the failure no hook is ever installed and
\* start() is not called again.
C16_FailOpen ==
    [][/\ (main_pc = "new" /\ main_pc' # "new" /\ Hooks' = 0) =>
            /\ start_result' = "raised"
            /\ init_result' = "true"
            /\ main_pc' = "top"
            /\ app_running'
       /\ (start_result = "raised") =>
            /\ Hooks' = 0
            /\ listener' = listener
            /\ start_result' = "raised"]_vars

\* the loop handles UI events after the hook failed to install
C16_Witness ==
    /\ start_result = "raised"
    /\ init_result = "true"
    /\ main_pc = "events"
    /\ pending > 0
    /\ app_running
    /\ Hooks = 0

\* ---- C17 ----
\* C17: should_exit() is evaluated in every frame: a frame that began with
\* the exit flag set ends with the loop stopped, whether or not a UI event
\* was pending in it.
C17_PolledEveryFrame ==
    (main_pc = "top" /\ frame_flag) => ~app_running

\* ---- C20 ----
\* C20: a key counts as held whenever at least one of its raw variants has
\* been pressed and not since released, no such press being older than
\* max_key_age: its normalized name is in the held set.
C20_HeldWhileAnyVariantDown ==
    \A k \in DOMAIN down :
        (now - down[k] <= max_age) => _normalize_key(k) \in current_keys

\* ---- C21 ----
\* C21: every step of a callback that reads or writes current_keys or
\* key_timestamps (recording with its sweep, the match check, the blocking
\* check of Tab or F4, the two halves of a release) is taken with key_lock
\* held by the thread taking it.
C21_AccessUnderLock ==
    [][\A t \in Threads :
         (/\ tpc'[t] # tpc[t]
          /\ \/ tpc[t] \in {"p_wait", "p_stamp", "c_locked", "r_wait", "r_del"}
             \/ tpc[t] = "block" /\ tkey[t] \in {PKey("tab"), PKey("f4")})
         => (key_lock = t \/ key_lock' = t)]_vars

\* ---- C22 ----
\* C22: when the match check of a press succeeds, that press is suppressed:
\* the callback goes on to set the flag and returns False for the same key.
C22_MatchSuppressed ==
    [][/\ (pc = "check" /\ pc' # pc /\ ExitComboHeld) => pc' = "set"
       /\ (pc = "set" /\ pc' # pc) =>
            (Returned' /\ ret' = FALSE /\ key' = key)]_vars

\* the Esc press that completed the combination returned False
C22_Witness ==
    /\ Returned
    /\ key = PKey("esc")
    /\ ret = FALSE
    /\ should_exit_flag
    /\ ExitComboHeld
    /\ Cardinality(current_keys) = 3

\* ---- C23 ----
\* C23: the timestamp stored for a held key is the time of its most recent
\* press, and the flag is set only when the most recent presses of the
\* combination keys lie within exit_window of each other.
C23_LatestPressStamp ==
    [][/\ \A k \in DOMAIN key_timestamps' :
             k \in DOMAIN pressed_at' /\ key_timestamps'[k] = pressed_at'[k]
       /\ (~should_exit_flag /\ should_exit_flag') => ComboPressedTogether]_vars

\* left Ctrl went down at 0 s and is still down; Shift and Esc were pressed at
\* 3 s; right Ctrl pressed at 3 s replaced the timestamp of Ctrl and the
\* match succeeds
C23_Witness ==
    /\ pc = "set"
    /\ key = PKey("ctrl_r")
    /\ PKey("ctrl_l") \in DOMAIN down
    /\ down[PKey("ctrl_l")] = 0
    /\ key_timestamps =
           (Str("ctrl") :> 6) @@ (Str("shift") :> 6) @@ (Str("esc") :> 6)

\* ---- C28 ----
\* C28: while a press is handled at time now, every entry of the held set has
\* a timestamp of at least now - max_key_age, every key whose last event was a
\* press of age at most max_key_age (exactly max_key_age included) is still
\* held, and the key just pressed is in the held set.
C28_SweepStrict ==
    InPress =>
        /\ \A k \in current_keys :
               k \in DOMAIN key_timestamps
               /\ key_timestamps[k] >= now - max_age
        /\ \A k \in DOMAIN pressed_at :
               (now - pressed_at[k] <= max_age) => k \in current_keys
        /\ _normalize_key(key) \in current_keys

\* a press handled at 13 s; an entry pressed at 3 s, of age exactly 10 s, is
\* kept, and one pressed at 0 s has been evicted
C28_Witness ==
    /\ pc = "check"
    /\ now = 26
    /\ \E k \in current_keys : key_timestamps[k] = 6
    /\ \E k \in Evicted : pressed_at[k] = 0

\* ---- C24 ----
\* C24: a release of a key that is not in the held set raises no error and
\* changes neither the held set, nor the timestamps, nor the exit flag: the
\* key has no timestamp either, and both halves of the release leave the
\* state as it is.
C24_ReleaseOfAbsentKey ==
    [][\A t \in Threads :
         /\ tpc'[t] # "raised"
         /\ (/\ tpc[t] = "r_wait"
             /\ tpc'[t] = "r_del"
             /\ normalized_of(t) \notin current_keys) =>
                /\ normalized_of(t) \notin DOMAIN key_timestamps
                /\ UNCHANGED <<current_keys, key_timestamps,
                               should_exit_flag>>
         /\ (/\ tpc[t] = "r_del"
             /\ tpc'[t] # "r_del"
             /\ normalized_of(t) \notin DOMAIN key_timestamps) =>
                UNCHANGED <<current_keys, key_timestamps,
                            should_exit_flag>>]_vars

\* Esc is released while only Ctrl is held
C24_Witness ==
    \E t \in Threads :
        /\ tpc[t] = "r_del"
        /\ tkey[t] = PKey("esc")
        /\ current_keys = {Str("ctrl")}
        /\ DOMAIN key_timestamps = {Str("ctrl")}

\* ---- C25 ----
\* C25: the match check of a press runs on the key state that the recording
\* of that press and its sweep left: no other callback has changed the held
\* set or the timestamps in between.
C25_CheckSeesOwnRecord ==
    \A t \in Threads : tpc[t] = "c_locked" => ~interleaved[t]

\* ---- C27 ----
\* C27: whenever key_lock is not held, current_keys is exactly the set of
\* keys of key_timestamps.
C27_SetMatchesTimestamps ==
    key_lock = 0 => current_keys = DOMAIN key_timestamps

\* after a stop(), at 13 s, with a thread between its recording and its
\* match check and a key stamped at 13 s
C27_Witness ==
    /\ key_lock = 0
    /\ listener = "stopped"
    /\ now = 26
    /\ \E t \in Threads : tpc[t] = "c_wait"
    /\ \E k \in current_keys : key_timestamps[k] = 26
    /\ Cardinality(current_keys) = 2

\* ---- C29 ----
\* C29: the callbacks are deadlock-free: a thread holds key_lock only inside
\* a with block, so it never waits for the lock while holding it and never
\* leaves a callback with it, and every callback that was entered returns.
C29_DeadlockFree ==
    /\ [](\A t \in Threads :
             key_lock = t => tpc[t] \in {"p_stamp", "c_locked", "r_del"})
    /\ \A t \in Threads : (tpc[t] # "idle") ~> (tpc[t] = "idle")

\* one thread holds the lock, the other waits for it, and the host has
\* polled the set flag
C29_Witness ==
    /\ key_lock = 1
    /\ tpc[2] \in {"p_wait", "c_wait", "r_wait"}
    /\ polled
    /\ should_exit_flag

\* ---- C26 ----
\* C26: suppressing an event does not end the guard: from a start() that
\* returned until stop() is called, the guard is running with its hook
\* installed, so that later presses and releases are delivered and recorded.
C26_SuppressKeepsGuard ==
    (running /\ start_result = "returned") => Hooks > 0

\* ---- C30 ----
\* C30: in the API bridge the keyboard lock is reported active only while
\* an activity is current; after stop_activity() or cleanup() it is not
\* active.
C30_LockOnlyDuringActivity ==
    api_keyboard_lock_active => current_activity # "None"

\* an activity ran with the lock and was stopped, after the setting had been
\* switched off while it ran
C30_Witness ==
    /\ api_pc = "ready"
    /\ current_activity = "None"
    /\ keyboard_locker
    /\ listener = "stopped"
    /\ ~keyboard_lock_enabled
    /\ ~running

====
